---- MODULE Spec2Model ----
(***************************************************************************)
(* A model of scripts/04_generate_dashboard_data.py, the dashboard        *)
(* aggregation engine of davis.food, and of scripts/upload_to_s3.py, the  *)
(* step that uploads its output.                                          *)
(*                                                                         *)
(* Representation                                                          *)
(*   - a Python dict is a TLA+ function over the set of its keys; a       *)
(*     missing key is a string that is not in DOMAIN d;                   *)
(*   - a Python str that the code inspects (description, name, comments)  *)
(*     is a sequence of one-character strings;                            *)
(*   - a value that may be None is <<>> for None and <<v>> for v;         *)
(*   - a rating (a float in the code) is an integer number of hundredths: *)
(*     7.0 is 700 and round(x, 2) is the nearest hundredth;               *)
(*   - scores and counters are integers, as in the data the script reads. *)
(***************************************************************************)
EXTENDS Integers, Sequences, FiniteSets, TLC

\* -------------------------------------------------------------------------
\* Bounds of the model
\* -------------------------------------------------------------------------

\* The longest review collection the reviews file holds.
MaxReviews == 2

\* The largest limit a caller hands to get_top_posts / calculate_food_frequency.
MaxLimit == 2

\* -------------------------------------------------------------------------
\* Python built-ins
\* -------------------------------------------------------------------------

None == <<>>

Some(v) == <<v>>

\* d.get(k, default)
Get(d, k, default) == IF k \in DOMAIN d THEN d[k] ELSE default

\* d.get(k) for a key whose value, when present, is never null in the data.
GetOpt(d, k) == IF k \in DOMAIN d THEN Some(d[k]) ELSE None

\* x or 0, for x = d.get(k)
OrZero(opt) == IF opt = None THEN 0 ELSE opt[1]

Range(s) == {s[i] : i \in DOMAIN s}

Min(a, b) == IF a <= b THEN a ELSE b

RECURSIVE SumSeq(_)
SumSeq(s) == IF s = <<>> THEN 0 ELSE s[1] + SumSeq(Tail(s))

MinSeq(s) == CHOOSE x \in Range(s) : \A y \in Range(s) : x <= y

MaxSeq(s) == CHOOSE x \in Range(s) : \A y \in Range(s) : x >= y

\* The k-th smallest element of a finite set of integers.
NthOf(S, k) == CHOOSE i \in S : Cardinality({j \in S : j < i}) = k - 1

\* [x for x in s if ...]: the elements of s at the indices in keep, in order
FilterSeq(s, keep) == [p \in 1..Cardinality(keep) |-> s[NthOf(keep, p)]]

RECURSIVE Flatten(_)
Flatten(ss) == IF ss = <<>> THEN <<>> ELSE ss[1] \o Flatten(Tail(ss))

\* s[:n]
Take(s, n) == SubSeq(s, 1, Min(n, Len(s)))

\* sorted(s, key=...) is stable: the element at index i goes behind every
\* element with a smaller key and every earlier element with the same key.
\* keys[i] is the key of s[i]; the result lists the indices in sorted order.
SortedIdx(keys) ==
    LET n == Len(keys)
        pos(i) == 1 + Cardinality({j \in 1..n :
                        keys[j] < keys[i] \/ (keys[j] = keys[i] /\ j < i)})
    IN [p \in 1..n |-> CHOOSE i \in 1..n : pos(i) = p]

\* sorted(s, key=..., reverse=True) keeps the stability: equal keys stay in
\* their original order.
SortedIdxReverse(keys) ==
    LET n == Len(keys)
        pos(i) == 1 + Cardinality({j \in 1..n :
                        keys[j] > keys[i] \/ (keys[j] = keys[i] /\ j < i)})
    IN [p \in 1..n |-> CHOOSE i \in 1..n : pos(i) = p]

Sorted(s, keys) == [p \in 1..Len(s) |-> s[SortedIdx(keys)[p]]]

SortedReverse(s, keys) == [p \in 1..Len(s) |-> s[SortedIdxReverse(keys)[p]]]

\* round(num / den, d) for integers num >= 0 and den > 0, in units of 10^-d:
\* scaled is num * 10^d.  Python rounds the double nearest to the quotient to
\* the nearest value, and an exact tie (a quotient that is a dyadic rational)
\* to the even neighbour.
RoundDiv(scaled, den) ==
    LET q == scaled \div den
        r == scaled % den
    IN IF 2 * r < den THEN q
       ELSE IF 2 * r > den THEN q + 1
       ELSE IF q % 2 = 0 THEN q ELSE q + 1

\* -------------------------------------------------------------------------
\* Python str methods, on sequences of characters
\* -------------------------------------------------------------------------

LowerCase == <<"a", "b", "c", "d", "e", "f", "g", "h", "i", "j", "k", "l", "m",
               "n", "o", "p", "q", "r", "s", "t", "u", "v", "w", "x", "y", "z">>

UpperCase == <<"A", "B", "C", "D", "E", "F", "G", "H", "I", "J", "K", "L", "M",
               "N", "O", "P", "Q", "R", "S", "T", "U", "V", "W", "X", "Y", "Z">>

UpperChar(c) ==
    IF \E i \in DOMAIN LowerCase : LowerCase[i] = c
    THEN UpperCase[CHOOSE i \in DOMAIN LowerCase : LowerCase[i] = c]
    ELSE c

LowerChar(c) ==
    IF \E i \in DOMAIN UpperCase : UpperCase[i] = c
    THEN LowerCase[CHOOSE i \in DOMAIN UpperCase : UpperCase[i] = c]
    ELSE c

\* text.upper()
Upper(text) == [i \in DOMAIN text |-> UpperChar(text[i])]

\* text.lower()
Lower(text) == [i \in DOMAIN text |-> LowerChar(text[i])]

\* sub in text
Contains(text, sub) ==
    \E i \in 0..(Len(text) - Len(sub)) : SubSeq(text, i + 1, i + Len(sub)) = sub

IsSpace(c) == c = " "

\* text.strip()
Strip(text) ==
    LET keep == {i \in DOMAIN text : ~IsSpace(text[i])}
    IN IF keep = {} THEN <<>>
       ELSE SubSeq(text, CHOOSE i \in keep : \A j \in keep : i <= j,
                         CHOOSE i \in keep : \A j \in keep : i >= j)

\* re.split(r'[.!]', text) and, with IsSpace, the pieces text.split() cuts at
\* (split() then drops the empty ones): the pieces between the separators,
\* one more than there are separators.
SplitAt(text, seps) ==
    LET from(k) == IF k = 1 THEN 1 ELSE NthOf(seps, k - 1) + 1
        to(k) == IF k = Cardinality(seps) + 1 THEN Len(text)
                 ELSE NthOf(seps, k) - 1
    IN [k \in 1..(Cardinality(seps) + 1) |-> SubSeq(text, from(k), to(k))]

IsSentenceEnd(c) == c \in {".", "!"}

NonEmpty(s) == s # <<>>

\* text.split()
SplitWords(text) ==
    LET pieces == SplitAt(text, {c \in DOMAIN text : IsSpace(text[c])})
    IN FilterSeq(pieces, {i \in DOMAIN pieces : NonEmpty(pieces[i])})

\* word.capitalize()
Capitalize(word) ==
    IF word = <<>> THEN word
    ELSE <<UpperChar(word[1])>> \o Lower(Tail(word))

\* ' '.join(words)
RECURSIVE JoinWords(_)
JoinWords(words) ==
    IF words = <<>> THEN <<>>
    ELSE IF Len(words) = 1 THEN words[1]
    ELSE words[1] \o <<" ">> \o JoinWords(Tail(words))

\* Counter(items).most_common(): the distinct items in first-seen order with
\* their counts, then sorted by count descending (a stable sort).
RECURSIVE Distinct(_, _)
Distinct(items, seen) ==
    IF items = <<>> THEN <<>>
    ELSE IF items[1] \in seen THEN Distinct(Tail(items), seen)
    ELSE <<items[1]>> \o Distinct(Tail(items), seen \cup {items[1]})

CountOf(items, x) == Cardinality({i \in DOMAIN items : items[i] = x})

MostCommon(items) ==
    LET keys == Distinct(items, {})
        counts == [i \in DOMAIN keys |-> CountOf(items, keys[i])]
        pairs == [i \in DOMAIN keys |-> <<keys[i], counts[i]>>]
    IN SortedReverse(pairs, counts)

\* -------------------------------------------------------------------------
\* The calculators of scripts/04_generate_dashboard_data.py
\* -------------------------------------------------------------------------

\* sentence_case(text)
sentence_case(text) ==
    IF text = <<>> THEN text
    ELSE IF Len(text) > 1 THEN <<UpperChar(text[1])>> \o Lower(Tail(text))
    ELSE Upper(text)

\* review.get('foods', [])
FoodsOf(review) == Get(review, "foods", <<>>)

\* review.get('stats', {}).get(counter, 0)
StatOf(review, counter) == Get(Get(review, "stats", <<>>), counter, 0)

\* r.get('create_time') is truthy: the key is there and its value is not 0.
HasCreateTime(review) == Get(review, "create_time", 0) # 0

\* datetime.fromtimestamp(ts).strftime('%Y-%m-%d'): the calendar day the
\* timestamp falls on, as a day count (the local zone's offset taken as 0).
DateOf(ts) == ts \div 86400

\* [f.get('score') for f in foods if f.get('score') is not None]
HasScore(food) == Get(food, "score", None) # None

ScoresOf(foods) ==
    LET scored == FilterSeq(foods, {i \in DOMAIN foods : HasScore(foods[i])})
    IN [i \in DOMAIN scored |-> scored[i]["score"][1]]

\* round(sum(scores) / len(scores), 2), in hundredths
Mean2(scores) == RoundDiv(100 * SumSeq(scores), Len(scores))

\* The off-topic post: 'texas roadhouse' in description or 'texasroadhouse'
\* in description, for description = review.get('description', '').lower()
TexasRoadhouseSpaced ==
    <<"t", "e", "x", "a", "s", " ", "r", "o", "a", "d", "h", "o", "u", "s", "e">>

TexasRoadhouseJoined ==
    <<"t", "e", "x", "a", "s", "r", "o", "a", "d", "h", "o", "u", "s", "e">>

IsTexasRoadhouse(review) ==
    LET description == Lower(Get(review, "description", <<>>))
    IN Contains(description, TexasRoadhouseSpaced)
       \/ Contains(description, TexasRoadhouseJoined)

IsSchoolLunch(review) == ~IsTexasRoadhouse(review)

\* f"https://www.tiktok.com/@davis_big_dawg/video/{post_id}" if post_id else None
VideoUrl(post_id) ==
    IF post_id = None THEN None ELSE Some([video |-> post_id[1]])

\* The keywords of extract_key_phrases.
Keywords ==
    { <<"p", "r", "e", "t", "t", "y", " ", "g", "o", "o", "d">>,
      <<"r", "e", "a", "l", "l", "y", " ", "g", "o", "o", "d">>,
      <<"s", "u", "p", "e", "r">>,
      <<"v", "e", "r", "y">>,
      <<"n", "o", "t", " ", "t", "h", "a", "t", " ", "g", "r", "e", "a", "t">>,
      <<"k", "i", "n", "d", " ", "o", "f">>,
      <<"a", "c", "t", "u", "a", "l", "l", "y">>,
      <<"n", "i", "c", "e", " ", "a", "n", "d">>,
      <<"l", "o", "v", "e">>,
      <<"f", "a", "v", "o", "r", "i", "t", "e">>,
      <<"n", "o", "t", " ", "t", "h", "e", " ", "b", "i", "g", "g", "e", "s", "t">>,
      <<"d", "e", "f", "i", "n", "i", "t", "e", "l", "y">>,
      <<"b", "l", "a", "n", "d">>,
      <<"s", "o", "g", "g", "y">>,
      <<"d", "r", "y">>,
      <<"c", "r", "i", "s", "p">> }

\* phrase_counts.most_common(30)
KeyPhraseLimit == 30

IsCharacteristic(sentence) ==
    /\ sentence # <<>>
    /\ \E keyword \in Keywords : Contains(Lower(sentence), keyword)

\* The sentences one food's comment contributes to phrases.
PhrasesOf(food) ==
    LET comment == Get(food, "comments", <<>>)
        sentences == SplitAt(comment, {c \in DOMAIN comment : IsSentenceEnd(comment[c])})
        stripped == [i \in DOMAIN sentences |-> Strip(sentences[i])]
    IN IF comment = <<>> THEN <<>>
       ELSE FilterSeq(stripped,
                      {i \in DOMAIN stripped : IsCharacteristic(stripped[i])})

AllFoods(reviews) == Flatten([i \in DOMAIN reviews |-> FoodsOf(reviews[i])])

\* extract_key_phrases(reviews)
extract_key_phrases(reviews) ==
    LET foods == AllFoods(reviews)
        phrases == Flatten([i \in DOMAIN foods |-> PhrasesOf(foods[i])])
        common == Take(MostCommon(phrases), KeyPhraseLimit)
    IN [i \in DOMAIN common |-> sentence_case(common[i][1])]

\* calculate_cumulative_stats with the off-topic post filtered out as well: the
\* exclusion applied as a blanket filter.
calculate_cumulative_stats_of_school_lunch(reviews) ==
    LET IsDatedSchoolLunch(r) == HasCreateTime(r) /\ IsSchoolLunch(r)
        dated == FilterSeq(reviews, {i \in DOMAIN reviews : IsDatedSchoolLunch(reviews[i])})
        sorted_reviews ==
            Sorted(dated, [i \in DOMAIN dated |-> dated[i]["create_time"]])
        cum(k, counter) ==
            SumSeq([i \in 1..k |-> StatOf(sorted_reviews[i], counter)])
    IN [k \in DOMAIN sorted_reviews |->
          [date |-> DateOf(sorted_reviews[k]["create_time"]),
           timestamp |-> sorted_reviews[k]["create_time"],
           day_number |-> GetOpt(sorted_reviews[k], "day_number"),
           cumulative_likes |-> cum(k, "diggCount"),
           cumulative_views |-> cum(k, "playCount"),
           cumulative_comments |-> cum(k, "commentCount"),
           cumulative_shares |-> cum(k, "shareCount")]]

\* calculate_cumulative_stats(reviews)
calculate_cumulative_stats(reviews) ==
    LET dated == FilterSeq(reviews, {i \in DOMAIN reviews : HasCreateTime(reviews[i])})
        sorted_reviews ==
            Sorted(dated, [i \in DOMAIN dated |-> dated[i]["create_time"]])
        cum(k, counter) ==
            SumSeq([i \in 1..k |-> StatOf(sorted_reviews[i], counter)])
    IN [k \in DOMAIN sorted_reviews |->
          [date |-> DateOf(sorted_reviews[k]["create_time"]),
           timestamp |-> sorted_reviews[k]["create_time"],
           day_number |-> GetOpt(sorted_reviews[k], "day_number"),
           cumulative_likes |-> cum(k, "diggCount"),
           cumulative_views |-> cum(k, "playCount"),
           cumulative_comments |-> cum(k, "commentCount"),
           cumulative_shares |-> cum(k, "shareCount")]]

\* calculate_category_stats(reviews): the dict, as the sequence of its items
\* in insertion order (the order favorite_category's max() iterates in).
CategoryOf(food) == Get(food, "category", "other")

\* calculate_category_stats with every food of the category counted, scored
\* or not.
calculate_category_stats_counting_unscored(reviews) ==
    LET all_foods == AllFoods(reviews)
        scored == FilterSeq(all_foods,
                            {i \in DOMAIN all_foods : HasScore(all_foods[i])})
        categories == Distinct([i \in DOMAIN scored |-> CategoryOf(scored[i])], {})
        scores(c) ==
            LET InCategory(food) == CategoryOf(food) = c
            IN ScoresOf(FilterSeq(scored, {i \in DOMAIN scored : InCategory(scored[i])}))
        foods(c) ==
            LET InCategory(food) == CategoryOf(food) = c
            IN FilterSeq(all_foods,
                         {i \in DOMAIN all_foods : InCategory(all_foods[i])})
    IN [i \in DOMAIN categories |->
          [category |-> categories[i],
           average_rating |-> Mean2(scores(categories[i])),
           count |-> Len(foods(categories[i])),
           min |-> MinSeq(scores(categories[i])),
           max |-> MaxSeq(scores(categories[i]))]]

calculate_category_stats(reviews) ==
    LET all_foods == AllFoods(reviews)
        scored == FilterSeq(all_foods,
                            {i \in DOMAIN all_foods : HasScore(all_foods[i])})
        categories == Distinct([i \in DOMAIN scored |-> CategoryOf(scored[i])], {})
        scores(c) ==
            LET InCategory(food) == CategoryOf(food) = c
            IN ScoresOf(FilterSeq(scored, {i \in DOMAIN scored : InCategory(scored[i])}))
    IN [i \in DOMAIN categories |->
          [category |-> categories[i],
           average_rating |-> Mean2(scores(categories[i])),
           count |-> Len(scores(categories[i])),
           min |-> MinSeq(scores(categories[i])),
           max |-> MaxSeq(scores(categories[i]))]]

\* str(n) for an integer n >= 0
DigitChars == <<"0", "1", "2", "3", "4", "5", "6", "7", "8", "9">>

RECURSIVE Digits(_)
Digits(n) ==
    IF n < 10 THEN <<DigitChars[n + 1]>>
    ELSE Append(Digits(n \div 10), DigitChars[(n % 10) + 1])

RECURSIVE Pow2Mod(_, _)
Pow2Mod(s, m) == IF s = 0 THEN 1 % m ELSE (2 * Pow2Mod(s - 1, m)) % m

RECURSIVE Log2Floor(_)
Log2Floor(x) == IF x < 2 THEN 0 ELSE 1 + Log2Floor(x \div 2)

\* f"{num / 1_000:.0f}": num / 1_000 is the double nearest to the quotient and
\* .0f rounds that double to the nearest integer, an exact half to the even
\* one.  A quotient q + 1/2 is a double, so a tie is an exact half.
FormatThousands(num) == RoundDiv(num, 1000)

\* f"{num / 1_000_000:.1f}", in tenths.  Off a tie the double rounds as the
\* quotient does.  On a tie the quotient is m/20 for an odd m: a double when
\* 5 divides m (an exact half, rounded to even), and otherwise the double
\* lies below or above it according to the remainder of m * 2^s by 20, for
\* the s that scales m/20 into the 53 bits of a double's significand.
FormatMillions(num) ==
    LET q == num \div 100000
        r == num % 100000
        m == 2 * q + 1
        s == 52 - Log2Floor(m \div 20)
        rem == ((m % 20) * Pow2Mod(s, 20)) % 20
    IN IF 2 * r < 100000 THEN q
       ELSE IF 2 * r > 100000 THEN q + 1
       ELSE IF m % 5 = 0 THEN (IF q % 2 = 0 THEN q ELSE q + 1)
       ELSE IF rem < 10 THEN q ELSE q + 1

\* format_number with the thousands cut off instead of rounded.
format_number_truncating(num) ==
    IF num >= 1000000
    THEN Digits(FormatMillions(num) \div 10) \o <<".">>
         \o Digits(FormatMillions(num) % 10) \o <<"M">>
    ELSE IF num >= 1000
    THEN Digits(num \div 1000) \o <<"K">>
    ELSE Digits(num)

\* format_number(num)
format_number(num) ==
    IF num >= 1000000
    THEN Digits(FormatMillions(num) \div 10) \o <<".">>
         \o Digits(FormatMillions(num) % 10) \o <<"M">>
    ELSE IF num >= 1000
    THEN Digits(FormatThousands(num)) \o <<"K">>
    ELSE Digits(num)

\* The entry get_top_posts builds for one review.
TopPostEntry(review) ==
    LET foods == FoodsOf(review)
        scores == ScoresOf(foods)
        post_id == GetOpt(review, "post_id")
    IN [post_id |-> post_id,
        day_number |-> GetOpt(review, "day_number"),
        date |-> IF HasCreateTime(review)
                 THEN Some(DateOf(review["create_time"])) ELSE None,
        timestamp |-> GetOpt(review, "create_time"),
        engagement_score |-> StatOf(review, "diggCount")
                             + StatOf(review, "commentCount")
                             + StatOf(review, "shareCount"),
        likes |-> StatOf(review, "diggCount"),
        likes_formatted |-> format_number(StatOf(review, "diggCount")),
        views |-> StatOf(review, "playCount"),
        views_formatted |-> format_number(StatOf(review, "playCount")),
        comments |-> StatOf(review, "commentCount"),
        comments_formatted |-> format_number(StatOf(review, "commentCount")),
        shares |-> StatOf(review, "shareCount"),
        average_rating |-> IF scores # <<>> THEN Some(Mean2(scores)) ELSE None,
        food_count |-> Len(foods),
        tiktok_url |-> VideoUrl(post_id),
        thumbnail_url |-> VideoUrl(post_id)]

\* get_top_posts with the ranking taken from an ascending sort read backwards,
\* which turns the posts of equal engagement around.
get_top_posts_reversed_ascending(reviews, limit) ==
    LET kept == FilterSeq(reviews, {i \in DOMAIN reviews : IsSchoolLunch(reviews[i])})
        posts_with_engagement == [i \in DOMAIN kept |-> TopPostEntry(kept[i])]
        keys == [i \in DOMAIN kept |-> posts_with_engagement[i].engagement_score]
        ascending == Sorted(posts_with_engagement, keys)
    IN Take([i \in DOMAIN ascending |-> ascending[Len(ascending) + 1 - i]], limit)

\* get_top_posts(reviews, limit)
get_top_posts(reviews, limit) ==
    LET kept == FilterSeq(reviews, {i \in DOMAIN reviews : IsSchoolLunch(reviews[i])})
        posts_with_engagement == [i \in DOMAIN kept |-> TopPostEntry(kept[i])]
        keys == [i \in DOMAIN kept |-> posts_with_engagement[i].engagement_score]
    IN Take(SortedReverse(posts_with_engagement, keys), limit)

\* The foods list prepare_posts_table builds for one review.
HasName(food) == Get(food, "name", <<>>) # <<>>

PostFoodEntry(food) ==
    [name |-> <<UpperChar(food["name"][1])>> \o Tail(food["name"]),
     score |-> Get(food, "score", None),
     category |-> Get(food, "category", "unknown")]

\* The entry prepare_posts_table builds for one review, before numbering.
PostEntry(review) ==
    LET foods == FoodsOf(review)
        scores == ScoresOf(foods)
        named == FilterSeq(foods, {i \in DOMAIN foods : HasName(foods[i])})
        post_id == GetOpt(review, "post_id")
    IN [post_id |-> post_id,
        day_number |-> GetOpt(review, "day_number"),
        date |-> IF HasCreateTime(review)
                 THEN Some(DateOf(review["create_time"])) ELSE None,
        timestamp |-> GetOpt(review, "create_time"),
        average_rating |-> IF scores # <<>> THEN Some(Mean2(scores)) ELSE None,
        food_count |-> Len(foods),
        foods |-> [i \in DOMAIN named |-> PostFoodEntry(named[i])],
        likes |-> StatOf(review, "diggCount"),
        views |-> StatOf(review, "playCount"),
        comments |-> StatOf(review, "commentCount"),
        shares |-> StatOf(review, "shareCount"),
        tiktok_url |-> VideoUrl(post_id),
        needs_review |-> Get(review, "needs_review", FALSE)]

\* post['review_number'] = i
WithReviewNumber(post, i) ==
    [k \in DOMAIN post \cup {"review_number"} |->
        IF k = "review_number" THEN i ELSE post[k]]

\* x['timestamp'] or 0
TimestampKeys(posts) == [i \in DOMAIN posts |-> OrZero(posts[i].timestamp)]

\* prepare_posts_table with the numbers handed out before the chronological
\* sort, in input order.
prepare_posts_table_numbered_in_input_order(reviews) ==
    LET kept == FilterSeq(reviews, {i \in DOMAIN reviews : IsSchoolLunch(reviews[i])})
        posts == [i \in DOMAIN kept |-> PostEntry(kept[i])]
        numbered == [i \in DOMAIN posts |-> WithReviewNumber(posts[i], i)]
    IN SortedReverse(numbered, TimestampKeys(numbered))

\* prepare_posts_table(reviews)
prepare_posts_table(reviews) ==
    LET kept == FilterSeq(reviews, {i \in DOMAIN reviews : IsSchoolLunch(reviews[i])})
        posts == [i \in DOMAIN kept |-> PostEntry(kept[i])]
        chronological == Sorted(posts, TimestampKeys(posts))
        numbered == [i \in DOMAIN chronological |->
                        WithReviewNumber(chronological[i], i)]
    IN SortedReverse(numbered, TimestampKeys(numbered))

\* calculate_food_frequency(reviews, limit)
UnknownFood ==
    <<"u", "n", "k", "n", "o", "w", "n", " ", "f", "o", "o", "d">>

IsCountedName(name) == name # <<>> /\ name # UnknownFood

calculate_food_frequency(reviews, limit) ==
    LET foods == AllFoods(reviews)
        names == [i \in DOMAIN foods |->
                     Strip(Lower(Get(foods[i], "name", <<>>)))]
        counted == FilterSeq(names, {i \in DOMAIN names : IsCountedName(names[i])})
        common == Take(MostCommon(counted), limit)
        display(name) ==
            LET words == SplitWords(name)
            IN JoinWords([i \in DOMAIN words |-> Capitalize(words[i])])
    IN [i \in DOMAIN common |->
          [name |-> display(common[i][1]), count |-> common[i][2]]]

\* max(category_stats.items(), key=average_rating)[0]: the first item, in
\* iteration order, of the greatest average.
FavoriteCategory(category_stats) ==
    IF category_stats = <<>> THEN None
    ELSE LET best == CHOOSE i \in DOMAIN category_stats :
                /\ \A j \in DOMAIN category_stats :
                      category_stats[j].average_rating
                          <= category_stats[i].average_rating
                /\ \A j \in 1..(i - 1) :
                      category_stats[j].average_rating
                          < category_stats[i].average_rating
         IN Some(category_stats[best].category)

\* calculate_overall_metrics with the favorite category defaulting to the
\* default category instead of None.
calculate_overall_metrics_with_default_favorite(reviews) ==
    LET school_reviews == FilterSeq(reviews, {i \in DOMAIN reviews : IsSchoolLunch(reviews[i])})
        all_foods == AllFoods(reviews)
        all_scores == ScoresOf(all_foods)
        categories == {CategoryOf(all_foods[i]) : i \in DOMAIN all_foods}
        favorite == FavoriteCategory(calculate_category_stats(reviews))
    IN [total_reviews |-> Len(reviews),
        school_lunch_reviews |-> Len(school_reviews),
        total_food_items |-> Len(all_foods),
        overall_average_rating |->
            IF all_scores # <<>> THEN Mean2(all_scores) ELSE 0,
        favorite_category |-> IF favorite = None THEN Some("other") ELSE favorite,
        category_counts |->
            [c \in categories |->
                Cardinality({i \in DOMAIN all_foods : CategoryOf(all_foods[i]) = c})]]

\* calculate_overall_metrics(reviews)
calculate_overall_metrics(reviews) ==
    LET school_reviews == FilterSeq(reviews, {i \in DOMAIN reviews : IsSchoolLunch(reviews[i])})
        all_foods == AllFoods(reviews)
        all_scores == ScoresOf(all_foods)
        categories == {CategoryOf(all_foods[i]) : i \in DOMAIN all_foods}
    IN [total_reviews |-> Len(reviews),
        school_lunch_reviews |-> Len(school_reviews),
        total_food_items |-> Len(all_foods),
        overall_average_rating |->
            IF all_scores # <<>> THEN Mean2(all_scores) ELSE 0,
        favorite_category |-> FavoriteCategory(calculate_category_stats(reviews)),
        category_counts |->
            [c \in categories |->
                Cardinality({i \in DOMAIN all_foods : CategoryOf(all_foods[i]) = c})]]

\* The post get_latest_review leaves out, by its identifier.
TexasRoadhousePostId == "7556759729863724301"

IsLatestCandidate(review) == GetOpt(review, "post_id") # Some(TexasRoadhousePostId)

\* x.get('create_time', 0)
CreateTimeKeys(revs) == [i \in DOMAIN revs |-> Get(revs[i], "create_time", 0)]

\* The index, in reviews, of sorted_reviews[0]: the first of the candidates
\* with the greatest create_time.
LatestIndex(reviews) ==
    LET keep == {i \in DOMAIN reviews : IsLatestCandidate(reviews[i])}
        filtered_reviews == FilterSeq(reviews, keep)
    IN NthOf(keep, SortedIdxReverse(CreateTimeKeys(filtered_reviews))[1])

\* food['name'] = sentence_case(food.get('name', ''))
WithSentenceCasedName(food) ==
    [k \in DOMAIN food \cup {"name"} |->
        IF k = "name" THEN sentence_case(Get(food, "name", <<>>)) ELSE food[k]]

SentenceCasedFoods(foods) ==
    [i \in DOMAIN foods |-> WithSentenceCasedName(foods[i])]

\* sum(f.get('score', 0) for f in foods) adds None to a number, and raises,
\* when a food carries the key 'score' with the value null.
HasNullScore(food) == "score" \in DOMAIN food /\ food["score"] = None

get_latest_review_raises(reviews) ==
    /\ \E i \in DOMAIN reviews : IsLatestCandidate(reviews[i])
    /\ \E f \in Range(FoodsOf(reviews[LatestIndex(reviews)])) : HasNullScore(f)

\* The working set after get_latest_review returned: the foods of the latest
\* review are rewritten in place.
get_latest_review_effect(reviews) ==
    IF \A i \in DOMAIN reviews : ~IsLatestCandidate(reviews[i]) THEN reviews
    ELSE IF "foods" \notin DOMAIN reviews[LatestIndex(reviews)] THEN reviews
    ELSE [reviews EXCEPT ![LatestIndex(reviews)] =
            [@ EXCEPT !["foods"] = SentenceCasedFoods(@)]]

\* The engagement block of a post's stats.
EngagementOf(stats) ==
    [likes |-> Get(stats, "diggCount", 0),
     comments |-> Get(stats, "commentCount", 0),
     shares |-> Get(stats, "shareCount", 0),
     views |-> Get(stats, "playCount", 0),
     likes_formatted |-> format_number(Get(stats, "diggCount", 0)),
     comments_formatted |-> format_number(Get(stats, "commentCount", 0)),
     shares_formatted |-> format_number(Get(stats, "shareCount", 0)),
     views_formatted |-> format_number(Get(stats, "playCount", 0))]

\* cover = video_data.get('cover', ''); if not cover: dynamicCover
CoverOf(post) ==
    LET video_data == Get(post, "video", <<>>)
    IN IF Get(video_data, "cover", "") # "" THEN video_data["cover"]
       ELSE Get(video_data, "dynamicCover", "")

\* round(avg_rating, 1) for avg_rating = sum(f.get('score', 0)) / len(foods),
\* in hundredths
LatestAverage(foods) ==
    LET scores == [i \in DOMAIN foods |-> Get(foods[i], "score", Some(0))[1]]
    IN IF foods # <<>> THEN 10 * RoundDiv(10 * SumSeq(scores), Len(foods)) ELSE 0

\* get_latest_review(reviews, posts_data): the dict it returns
get_latest_review(reviews, posts_data) ==
    LET filtered_reviews ==
            FilterSeq(reviews,
                      {i \in DOMAIN reviews : IsLatestCandidate(reviews[i])})
        keys == CreateTimeKeys(filtered_reviews)
        chronological_reviews == Sorted(filtered_reviews, keys)
        latest == SortedReverse(filtered_reviews, keys)[1]
        post_id == GetOpt(latest, "post_id")
        review_number ==
            CHOOSE i \in DOMAIN chronological_reviews :
                /\ GetOpt(chronological_reviews[i], "post_id") = post_id
                /\ \A j \in 1..(i - 1) :
                      GetOpt(chronological_reviews[j], "post_id") # post_id
        posts == Get(posts_data, "posts", <<>>)
        matching == {i \in DOMAIN posts : GetOpt(posts[i], "id") = post_id}
        post == posts[NthOf(matching, 1)]
        foods == FoodsOf(latest)
    IN IF filtered_reviews = <<>> THEN <<>>
       ELSE [post_id |-> post_id,
             day_number |-> GetOpt(latest, "day_number"),
             review_number |-> review_number,
             date |-> IF HasCreateTime(latest)
                      THEN Some(DateOf(latest["create_time"]))
                      ELSE Get(latest, "date", <<>>),
             foods |-> SentenceCasedFoods(foods),
             average_rating |-> LatestAverage(foods),
             thumbnail_url |-> IF matching = {} THEN None ELSE Some(CoverOf(post)),
             tiktok_url |-> [video |-> post_id],
             engagement |-> IF matching = {} THEN EngagementOf(<<>>)
                            ELSE EngagementOf(Get(post, "stats", <<>>))]

\* -------------------------------------------------------------------------
\* The data the script reads
\* -------------------------------------------------------------------------

HotDog ==
    [name |-> <<"h", "o", "t", " ", "D", "O", "G">>,
     score |-> Some(8),
     category |-> "entree",
     comments |-> <<"B", "l", "a", "n", "d", ".", " ", "d", "r", "y", "!">>]

Milk ==
    [name |-> <<" ", "m", "i", "l", "k">>,
     comments |-> <<"b", "l", "a", "n", "d">>]

Taco ==
    [name |-> <<"t", "a", "c", "o">>, score |-> Some(6), category |-> "entree"]

Unrated ==
    [name |-> UnknownFood, score |-> None, category |-> "side"]

Side ==
    [score |-> Some(4), category |-> "side", comments |-> <<"o", "k", ".">>]

Bun ==
    [name |-> <<"b">>, score |-> Some(10),
     comments |-> <<"d", "r", "y", ".", "D", "r", "y">>]

LunchText == <<"L", "u", "n", "c", "h">>

SteakText ==
    <<"T", "e", "x", "a", "s", " ", "R", "o", "a", "d", "h", "o", "u", "s", "e">>

SteakTag ==
    <<"#", "T", "e", "x", "a", "s", "R", "o", "a", "d", "h", "o", "u", "s", "e">>

ReviewPool ==
    { [post_id |-> "p1", create_time |-> 100, day_number |-> 1,
       description |-> LunchText,
       stats |-> [diggCount |-> 5, playCount |-> 50, commentCount |-> 1,
                  shareCount |-> 0],
       foods |-> <<HotDog, Milk>>],
      [post_id |-> "p2", create_time |-> 200,
       stats |-> [diggCount |-> 6, playCount |-> 2300000],
       foods |-> <<Taco>>],
      [post_id |-> "p3", create_time |-> 100, description |-> LunchText,
       foods |-> <<>>, needs_review |-> TRUE],
      [post_id |-> "p4", description |-> LunchText,
       stats |-> [diggCount |-> 2, playCount |-> 1500, shareCount |-> 4],
       foods |-> <<Side, Bun>>],
      [post_id |-> TexasRoadhousePostId, create_time |-> 300,
       description |-> SteakText,
       stats |-> [diggCount |-> 9, shareCount |-> 1],
       foods |-> <<Taco>>],
      [post_id |-> "p6", create_time |-> 150, description |-> SteakTag,
       stats |-> [diggCount |-> 1, commentCount |-> 2],
       foods |-> <<HotDog>>],
      [post_id |-> "p7", create_time |-> 0,
       stats |-> [diggCount |-> 3, playCount |-> 950],
       foods |-> <<Bun>>],
      [post_id |-> "p8", create_time |-> 500, description |-> LunchText,
       stats |-> [diggCount |-> 1],
       foods |-> <<Unrated, Taco>>] }

\* The review collections of at most MaxReviews reviews.
ReviewLists == UNION {[1..n -> ReviewPool] : n \in 0..MaxReviews}

PostsPool ==
    { <<>>,
      [posts |->
        << [id |-> "p1", video |-> [dynamicCover |-> "dynamic1"]],
           [id |-> "p2", video |-> [cover |-> "cover2"],
            stats |-> [diggCount |-> 1500, playCount |-> 2300000]],
           [id |-> "p6", video |-> [cover |-> "cover6", dynamicCover |-> "dynamic6"],
            stats |-> [diggCount |-> 1, commentCount |-> 2]],
           [id |-> "p8", stats |-> [shareCount |-> 950]] >>] }

\* The document a previous run left at the output path.
PreviousDocument == [username |-> "davis_big_dawg", generated_at |-> 0]

\* now_pt.hour: one hour of each branch of the a.m./p.m. rendering.
Hours == {0, 8, 12, 14}

\* The numbers format_number is applied to.
FormatInputs ==
    (0..1100) \cup {500 * k + d : k \in 2..12, d \in {-1, 0, 1}}
    \cup {999000 + 100 * k + d : k \in 0..10, d \in {-1, 0, 1}}
    \cup {50000 * k + d : k \in 20..70, d \in {-1, 0, 1}}
    \cup {2300000, 12345678, 199950000}

\* -------------------------------------------------------------------------
\* State
\* -------------------------------------------------------------------------

VARIABLES
    pc,           \* where main() / generate_dashboard_data() stands
    reviewsFile,  \* the reviews file: None when missing, else Some(document)
    postsFile,    \* the posts file: None when missing, else Some(document)
    outputFile,   \* the output file: None when absent, else Some(content)
    username,     \* data.get('username', 'unknown')
    reviews,      \* the in-memory review collection the calculators share
    posts_data,   \* the posts document
    out,          \* the sections computed so far, by name
    called,       \* the calculators invoked so far
    limit,        \* the limit handed to the last calculator that takes one
    error,        \* the kind of the exception main() caught, "" when none
    exit_code,    \* what main() returned: None while it runs
    num,          \* the argument of a direct call of format_number
    formatted,    \* what that call returned
    upload_pc,     \* where main() of upload_to_s3.py stands
    data_exists,   \* Path('data').exists()
    environ,       \* os.environ, the credential variables that are set
    local_files,   \* the entries of FILES_TO_UPLOAD that exist locally
    file_index,    \* the entry of FILES_TO_UPLOAD the loop stands at
    attempted,     \* the entries handed to upload_file_to_s3, in order
    failed,        \* the entries whose s3_client.upload_file raised
    uploaded_urls, \* the uploaded_urls dict
    upload_exit    \* the exit status of the upload process: None while it runs

\* The state of 04_generate_dashboard_data.py
dashboardVars ==
    <<pc, reviewsFile, postsFile, outputFile, username, reviews, posts_data,
      out, called, limit, error, exit_code, num, formatted>>

\* The state of upload_to_s3.py
uploadVars ==
    <<upload_pc, data_exists, environ, local_files, file_index, attempted,
      failed, uploaded_urls, upload_exit>>

vars == <<dashboardVars, uploadVars>>

\* upload_to_s3.py has not been started.
UploadIdle ==
    /\ upload_pc = "idle"
    /\ data_exists = FALSE
    /\ environ = <<>>
    /\ local_files = {}
    /\ file_index = 1
    /\ attempted = <<>>
    /\ failed = {}
    /\ uploaded_urls = <<>>
    /\ upload_exit = None

\* -------------------------------------------------------------------------
\* generate_dashboard_data() and main()
\* -------------------------------------------------------------------------

\* The calculators, in the order generate_dashboard_data invokes them.
Calculators ==
    <<"overall_metrics", "category_stats", "time_series", "top_posts",
      "key_phrases", "posts_table", "food_frequency", "latest_review">>

\* get_top_posts(reviews, limit=6)
TopPostsLimit == 6

\* calculate_food_frequency(reviews, limit=10)
FoodFrequencyLimit == 10

\* What calculator fn returns on the working set revs.
Result(fn, revs, pd, lim) ==
    CASE fn = "overall_metrics" -> calculate_overall_metrics(revs)
      [] fn = "category_stats" -> calculate_category_stats(revs)
      [] fn = "time_series" -> calculate_cumulative_stats(revs)
      [] fn = "top_posts" -> get_top_posts(revs, lim)
      [] fn = "key_phrases" -> extract_key_phrases(revs)
      [] fn = "posts_table" -> prepare_posts_table(revs)
      [] fn = "food_frequency" -> calculate_food_frequency(revs, lim)
      [] fn = "latest_review" -> get_latest_review(revs, pd)

\* Whether calculator fn raises on the working set revs.
Raises(fn, revs) == fn = "latest_review" /\ get_latest_review_raises(revs)

\* The working set after calculator fn returned.
Effect(fn, revs) ==
    IF fn = "latest_review" THEN get_latest_review_effect(revs) ELSE revs

\* The limit generate_dashboard_data hands to calculator fn.
LimitOf(fn, current) ==
    IF fn = "top_posts" THEN TopPostsLimit
    ELSE IF fn = "food_frequency" THEN FoodFrequencyLimit
    ELSE current

\* The step after calculator number i.
AfterCalculator(i) ==
    IF i < Len(Calculators) THEN Calculators[i + 1] ELSE "generated_at"

\* "8 a.m.", "12 p.m.": the hour and the half of the day
TimeStr(hour) ==
    IF hour = 0 THEN <<12, "a.m.">>
    ELSE IF hour < 12 THEN <<hour, "a.m.">>
    ELSE IF hour = 12 THEN <<12, "p.m.">>
    ELSE <<hour - 12, "p.m.">>

\* dashboard_data
DashboardData == ("username" :> username) @@ out

Init ==
    /\ UploadIdle
    /\ pc = "main"
    /\ reviewsFile \in {None}
          \cup {Some([username |-> "davis_big_dawg", reviews |-> rs]) :
                  rs \in ReviewLists}
    /\ postsFile \in {None} \cup {Some(pd) : pd \in PostsPool}
    /\ outputFile \in {None, Some(PreviousDocument)}
    /\ username = ""
    /\ reviews = <<>>
    /\ posts_data = <<>>
    /\ out = <<>>
    /\ called = {}
    /\ limit = 0
    /\ error = ""
    /\ exit_code = None
    /\ num = 0
    /\ formatted = <<>>

\* except Exception: ... return 1
Fail(kind) ==
    /\ pc' = "exited"
    /\ error' = kind
    /\ exit_code' = Some(1)

\* main(): if not args.reviews_json.exists(): raise FileNotFoundError
MainReviewsMissing ==
    /\ UNCHANGED uploadVars
    /\ pc = "main"
    /\ reviewsFile = None
    /\ Fail("InputMissing")
    /\ UNCHANGED <<reviewsFile, postsFile, outputFile, username, reviews,
                   posts_data, out, called, limit, num, formatted>>

\* main(): generate_dashboard_data(args.reviews_json, args.output), up to the
\* reviews document being loaded
LoadReviews ==
    /\ UNCHANGED uploadVars
    /\ pc = "main"
    /\ reviewsFile # None
    /\ username' = Get(reviewsFile[1], "username", "unknown")
    /\ reviews' = Get(reviewsFile[1], "reviews", <<>>)
    /\ pc' = "load_posts"
    /\ UNCHANGED <<reviewsFile, postsFile, outputFile, posts_data, out, called,
                   limit, error, exit_code, num, formatted>>

\* with open(posts_json_path, 'r'): the posts file is missing
LoadPostsMissing ==
    /\ UNCHANGED uploadVars
    /\ pc = "load_posts"
    /\ postsFile = None
    /\ Fail("InputMissing")
    /\ UNCHANGED <<reviewsFile, postsFile, outputFile, username, reviews,
                   posts_data, out, called, limit, num, formatted>>

\* LoadPosts with the output file opened for writing before the calculators
\* run.
LoadPostsOpeningOutput ==
    /\ UNCHANGED uploadVars
    /\ pc = "load_posts"
    /\ postsFile # None
    /\ posts_data' = postsFile[1]
    /\ outputFile' = Some(<<>>)
    /\ pc' = Calculators[1]
    /\ UNCHANGED <<reviewsFile, postsFile, username, reviews, out,
                   called, limit, error, exit_code, num, formatted>>

\* posts_data = json.load(f)
LoadPosts ==
    /\ UNCHANGED uploadVars
    /\ pc = "load_posts"
    /\ postsFile # None
    /\ posts_data' = postsFile[1]
    /\ pc' = Calculators[1]
    /\ UNCHANGED <<reviewsFile, postsFile, outputFile, username, reviews, out,
                   called, limit, error, exit_code, num, formatted>>

\* One calculator of generate_dashboard_data returns.
Calculate ==
    \E i \in DOMAIN Calculators :
        /\ UNCHANGED uploadVars
        /\ pc = Calculators[i]
        /\ ~Raises(Calculators[i], reviews)
        /\ called' = called \cup {Calculators[i]}
        /\ limit' = LimitOf(Calculators[i], limit)
        /\ out' = (Calculators[i] :>
                     Result(Calculators[i], reviews, posts_data, limit')) @@ out
        /\ reviews' = Effect(Calculators[i], reviews)
        /\ pc' = AfterCalculator(i)
        /\ UNCHANGED <<reviewsFile, postsFile, outputFile, username, posts_data,
                       error, exit_code, num, formatted>>

\* One calculator of generate_dashboard_data raises; main() catches it.
CalculateRaises ==
    \E i \in DOMAIN Calculators :
        /\ UNCHANGED uploadVars
        /\ pc = Calculators[i]
        /\ Raises(Calculators[i], reviews)
        /\ called' = called \cup {Calculators[i]}
        /\ Fail("TransformFailure")
        /\ UNCHANGED <<reviewsFile, postsFile, outputFile, username, reviews,
                       posts_data, out, limit, num, formatted>>

\* now_pt = datetime.now(pacific_tz) ... generated_at_formatted
GeneratedAt ==
    /\ UNCHANGED uploadVars
    /\ pc = "generated_at"
    /\ \E hour \in Hours :
          out' = ("generated_at_formatted" :> TimeStr(hour)) @@ out
    /\ pc' = "save"
    /\ UNCHANGED <<reviewsFile, postsFile, outputFile, username, reviews,
                   posts_data, called, limit, error, exit_code, num, formatted>>

\* with open(output_path, 'w'): the file is created, or cut to nothing
OpenOutput ==
    /\ UNCHANGED uploadVars
    /\ pc = "save"
    /\ outputFile' = Some(<<>>)
    /\ pc' = "dump"
    /\ UNCHANGED <<reviewsFile, postsFile, username, reviews, posts_data, out,
                   called, limit, error, exit_code, num, formatted>>

\* json.dump(dashboard_data, f); main() returns 0
DumpDocument ==
    /\ UNCHANGED uploadVars
    /\ pc = "dump"
    /\ outputFile' = Some(DashboardData)
    /\ pc' = "exited"
    /\ exit_code' = Some(0)
    /\ UNCHANGED <<reviewsFile, postsFile, username, reviews, posts_data, out,
                   called, limit, error, num, formatted>>

Next ==
    \/ MainReviewsMissing
    \/ LoadReviews
    \/ LoadPostsMissing
    \/ LoadPosts
    \/ Calculate
    \/ CalculateRaises
    \/ GeneratedAt
    \/ OpenOutput
    \/ DumpDocument

Spec == Init /\ [][Next]_vars

\* -------------------------------------------------------------------------
\* The calculators called on their own, in any order, on one working set
\* -------------------------------------------------------------------------

TakesLimit(fn) == fn \in {"top_posts", "food_frequency"}

InitCalls ==
    /\ UploadIdle
    /\ pc = "call"
    /\ \E rs \in ReviewLists :
          /\ reviewsFile = Some([username |-> "davis_big_dawg", reviews |-> rs])
          /\ reviews = rs
    /\ \E pd \in PostsPool :
          /\ postsFile = Some(pd)
          /\ posts_data = pd
    /\ outputFile = None
    /\ username = "davis_big_dawg"
    /\ out = <<>>
    /\ called = {}
    /\ limit = 0
    /\ error = ""
    /\ exit_code = None
    /\ num = 0
    /\ formatted = <<>>

\* A caller invokes one calculator on the shared working set and keeps what
\* it returned.
Call ==
    \E fn \in Range(Calculators), lim \in 0..MaxLimit :
        /\ UNCHANGED uploadVars
        /\ pc = "call"
        /\ ~Raises(fn, reviews)
        /\ TakesLimit(fn) \/ lim = limit
        /\ limit' = lim
        /\ out' = (fn :> Result(fn, reviews, posts_data, lim))
        /\ reviews' = Effect(fn, reviews)
        /\ error' = ""
        /\ UNCHANGED <<pc, reviewsFile, postsFile, outputFile, username,
                       posts_data, called, exit_code, num, formatted>>

\* The calculator raises; the caller is left with the exception.
CallRaises ==
    \E fn \in Range(Calculators) :
        /\ UNCHANGED uploadVars
        /\ pc = "call"
        /\ Raises(fn, reviews)
        /\ out' = <<>>
        /\ error' = "TransformFailure"
        /\ UNCHANGED <<pc, reviewsFile, postsFile, outputFile, username, reviews,
                       posts_data, called, limit, exit_code, num, formatted>>

NextCalls == Call \/ CallRaises

SpecCalls == InitCalls /\ [][NextCalls]_vars

\* -------------------------------------------------------------------------
\* format_number called on its own
\* -------------------------------------------------------------------------

InitFormat ==
    /\ UploadIdle
    /\ pc = "format"
    /\ num \in FormatInputs
    /\ formatted = <<>>
    /\ reviewsFile = None
    /\ postsFile = None
    /\ outputFile = None
    /\ username = ""
    /\ reviews = <<>>
    /\ posts_data = <<>>
    /\ out = <<>>
    /\ called = {}
    /\ limit = 0
    /\ error = ""
    /\ exit_code = None

FormatNumber ==
    /\ UNCHANGED uploadVars
    /\ pc = "format"
    /\ formatted' = format_number(num)
    /\ pc' = "formatted"
    /\ UNCHANGED <<reviewsFile, postsFile, outputFile, username, reviews,
                   posts_data, out, called, limit, error, exit_code, num>>

NextFormat == FormatNumber

SpecFormat == InitFormat /\ [][NextFormat]_vars

\* -------------------------------------------------------------------------
\* upload_to_s3.py
\* -------------------------------------------------------------------------

FILES_TO_UPLOAD ==
    <<"data/dashboard_stats.json",
      "data/davis_big_dawg/davis_big_dawg_reviews.json",
      "data/davis_big_dawg/davis_big_dawg_posts.json",
      "data/davis_big_dawg/transcripts/davis_big_dawg_transcripts.json">>

BUCKET_NAME == "stilesdata.com"

S3_PREFIX == "davis.food/"

CredentialNames == {"MY_AWS_ACCESS_KEY_ID", "MY_AWS_SECRET_ACCESS_KEY"}

\* The environments the process is started in: each credential variable
\* unset, set to the empty string or set to a key.
Environments ==
    UNION {[names -> {"", "key"}] : names \in SUBSET CredentialNames}

\* get_s3_client(): if not aws_access_key or not aws_secret_key: raise
\* ValueError
get_s3_client_raises(env) ==
    \E name \in CredentialNames : Get(env, name, "") = ""

\* upload_file_to_s3 on success: url = f"https://{BUCKET_NAME}/{s3_key}" with
\* s3_key = S3_PREFIX + file_path
UrlOf(file_path) ==
    [bucket |-> BUCKET_NAME, key |-> <<S3_PREFIX, file_path>>]

\* The interpreter ends a process whose main() let an exception escape with
\* status 1.
UploadEnds(status) ==
    /\ upload_pc' = "exited"
    /\ upload_exit' = Some(status)

InitUpload ==
    /\ upload_pc = "main"
    /\ data_exists \in BOOLEAN
    /\ environ \in Environments
    /\ local_files \in
          IF data_exists THEN SUBSET (DOMAIN FILES_TO_UPLOAD) ELSE {{}}
    /\ file_index = 1
    /\ attempted = <<>>
    /\ failed = {}
    /\ uploaded_urls = <<>>
    /\ upload_exit = None
    /\ pc = "idle"
    /\ reviewsFile = None
    /\ postsFile = None
    /\ outputFile = None
    /\ username = ""
    /\ reviews = <<>>
    /\ posts_data = <<>>
    /\ out = <<>>
    /\ called = {}
    /\ limit = 0
    /\ error = ""
    /\ exit_code = None
    /\ num = 0
    /\ formatted = <<>>

\* if not Path('data').exists(): return 1
UploadNoDataDirectory ==
    /\ upload_pc = "main"
    /\ ~data_exists
    /\ UploadEnds(1)
    /\ UNCHANGED <<data_exists, environ, local_files, file_index, attempted,
                   failed, uploaded_urls>>
    /\ UNCHANGED dashboardVars

\* except ValueError: return 1
UploadNoCredentials ==
    /\ upload_pc = "main"
    /\ data_exists
    /\ get_s3_client_raises(environ)
    /\ UploadEnds(1)
    /\ UNCHANGED <<data_exists, environ, local_files, file_index, attempted,
                   failed, uploaded_urls>>
    /\ UNCHANGED dashboardVars

\* s3_client = get_s3_client(); uploaded_urls = {}
UploadGetClient ==
    /\ upload_pc = "main"
    /\ data_exists
    /\ ~get_s3_client_raises(environ)
    /\ upload_pc' = "loop"
    /\ UNCHANGED <<data_exists, environ, local_files, file_index, attempted,
                   failed, uploaded_urls, upload_exit>>
    /\ UNCHANGED dashboardVars

\* if not local_path.exists(): continue
UploadSkipMissing ==
    /\ upload_pc = "loop"
    /\ file_index \in DOMAIN FILES_TO_UPLOAD
    /\ file_index \notin local_files
    /\ file_index' = file_index + 1
    /\ UNCHANGED <<upload_pc, data_exists, environ, local_files, attempted,
                   failed, uploaded_urls, upload_exit>>
    /\ UNCHANGED dashboardVars

\* upload_file_to_s3 returns the url; uploaded_urls[file_path] = url
UploadFileSucceeds ==
    /\ upload_pc = "loop"
    /\ file_index \in local_files
    /\ attempted' = Append(attempted, FILES_TO_UPLOAD[file_index])
    /\ uploaded_urls' =
          (FILES_TO_UPLOAD[file_index] :> UrlOf(FILES_TO_UPLOAD[file_index]))
             @@ uploaded_urls
    /\ file_index' = file_index + 1
    /\ UNCHANGED <<upload_pc, data_exists, environ, local_files, failed,
                   upload_exit>>
    /\ UNCHANGED dashboardVars

\* s3_client.upload_file raises ClientError: upload_file_to_s3 returns None
\* and the loop goes on.
UploadFileClientError ==
    /\ upload_pc = "loop"
    /\ file_index \in local_files
    /\ attempted' = Append(attempted, FILES_TO_UPLOAD[file_index])
    /\ failed' = failed \cup {FILES_TO_UPLOAD[file_index]}
    /\ file_index' = file_index + 1
    /\ UNCHANGED <<upload_pc, data_exists, environ, local_files,
                   uploaded_urls, upload_exit>>
    /\ UNCHANGED dashboardVars

\* s3_client.upload_file raises an exception that is not a ClientError (the
\* transfer's S3UploadFailedError, a connection error, an error reading the
\* local file): except ClientError does not catch it, main() has no handler
\* around the loop, and the exception ends the process.
UploadFileRaisesOther ==
    /\ upload_pc = "loop"
    /\ file_index \in local_files
    /\ attempted' = Append(attempted, FILES_TO_UPLOAD[file_index])
    /\ failed' = failed \cup {FILES_TO_UPLOAD[file_index]}
    /\ UploadEnds(1)
    /\ UNCHANGED <<data_exists, environ, local_files, file_index,
                   uploaded_urls>>
    /\ UNCHANGED dashboardVars

\* The summary after the loop; return 0
UploadSummary ==
    /\ upload_pc = "loop"
    /\ file_index = Len(FILES_TO_UPLOAD) + 1
    /\ UploadEnds(0)
    /\ UNCHANGED <<data_exists, environ, local_files, file_index, attempted,
                   failed, uploaded_urls>>
    /\ UNCHANGED dashboardVars

NextUpload ==
    \/ UploadNoDataDirectory
    \/ UploadNoCredentials
    \/ UploadGetClient
    \/ UploadSkipMissing
    \/ UploadFileSucceeds
    \/ UploadFileClientError
    \/ UploadFileRaisesOther
    \/ UploadSummary

SpecUpload == InitUpload /\ [][NextUpload]_vars

\* -------------------------------------------------------------------------
\* Properties
\* -------------------------------------------------------------------------

\* The review collection as the reviews file holds it: what every calculator
\* but the last works on in generate_dashboard_data.
LoadedReviews == Get(reviewsFile[1], "reviews", <<>>)

Returned(fn) == fn \in DOMAIN out

\* The rearrangements of a sequence.
Rearrangements(s) ==
    {[i \in DOMAIN s |-> s[f[i]]] :
        f \in {g \in [DOMAIN s -> DOMAIN s] :
                 \A i, j \in DOMAIN s : g[i] = g[j] => i = j}}

\* The reviews the Posts Table is built from.
SchoolLunchReviews(rs) == FilterSeq(rs, {i \in DOMAIN rs : IsSchoolLunch(rs[i])})

\* No two of the reviews share their place in time (a missing timestamp
\* counting as 0).
DistinctTimestamps(rs) ==
    \A i, j \in DOMAIN rs :
        Get(rs[i], "create_time", 0) = Get(rs[j], "create_time", 0) => i = j

\* The posts of the table with their numbers, whatever order they are
\* listed in.
NumberedPosts(table) == Range(table)

\* C1, as stated: for every review set and every rearrangement of it,
\* prepare_posts_table gives each post the same review_number.
C1_ReviewNumberIgnoresInputOrder ==
    Returned("posts_table") =>
        \A rearranged \in Rearrangements(LoadedReviews) :
            NumberedPosts(prepare_posts_table(rearranged))
                = NumberedPosts(out["posts_table"])

\* C1, amended: when no two reviews of the filtered set share a timestamp (a
\* missing one counting as 0), prepare_posts_table gives each post the same
\* review_number for every rearrangement of the input: its place in the
\* ascending order of the timestamps.
C1_ReviewNumberIgnoresInputOrderOfDistinctTimestamps ==
    (Returned("posts_table") /\ DistinctTimestamps(SchoolLunchReviews(LoadedReviews))) =>
        /\ \A rearranged \in Rearrangements(LoadedReviews) :
              NumberedPosts(prepare_posts_table(rearranged))
                  = NumberedPosts(out["posts_table"])
        /\ \A post \in NumberedPosts(out["posts_table"]) :
              post.review_number =
                  1 + Cardinality({other \in NumberedPosts(out["posts_table"]) :
                          OrZero(other.timestamp) < OrZero(post.timestamp)})

\* C1's case: a table built from two reviews given later-first, numbered
\* against the input order.
C1_Witness ==
    /\ Returned("posts_table")
    /\ Len(LoadedReviews) >= 2
    /\ DistinctTimestamps(SchoolLunchReviews(LoadedReviews))
    /\ IsSchoolLunch(LoadedReviews[1]) /\ IsSchoolLunch(LoadedReviews[2])
    /\ Get(LoadedReviews[1], "create_time", 0) > Get(LoadedReviews[2], "create_time", 0)
    /\ \E post \in NumberedPosts(out["posts_table"]) :
          post.post_id = GetOpt(LoadedReviews[1], "post_id") /\ post.review_number = 2

\* The total of one counter over a set of reviews, given by their indices.
RECURSIVE TotalOver(_, _, _)
TotalOver(rs, indices, counter) ==
    IF indices = {} THEN 0
    ELSE LET i == CHOOSE i \in indices : TRUE
         IN StatOf(rs[i], counter) + TotalOver(rs, indices \ {i}, counter)

\* The reviews that carry a timestamp.
Timestamped(rs) == {i \in DOMAIN rs : "create_time" \in DOMAIN rs[i]}

RunningSums(point) ==
    <<point.cumulative_likes, point.cumulative_views,
      point.cumulative_comments, point.cumulative_shares>>

\* C2, as stated: each running sum of the Cumulative Time Series is
\* non-decreasing from one point to the next, and the last point's sums are
\* the totals of the counters over all the reviews that have a timestamp.
C2_RunningSumsEndAtTotals ==
    Returned("time_series") =>
        LET series == out["time_series"]
            dated == Timestamped(LoadedReviews)
        IN /\ \A k \in 1..(Len(series) - 1) : \A c \in 1..4 :
                 RunningSums(series[k])[c] <= RunningSums(series[k + 1])[c]
           /\ series # <<>> =>
                 RunningSums(series[Len(series)])
                     = <<TotalOver(LoadedReviews, dated, "diggCount"),
                         TotalOver(LoadedReviews, dated, "playCount"),
                         TotalOver(LoadedReviews, dated, "commentCount"),
                         TotalOver(LoadedReviews, dated, "shareCount")>>

\* likes + comments + shares of a review
Engagement(review) ==
    StatOf(review, "diggCount") + StatOf(review, "commentCount")
        + StatOf(review, "shareCount")

\* C3: get_top_posts returns at most limit posts, the ones of the greatest
\* likes + comments + shares among the filtered reviews, in descending order
\* of that score, and posts of equal score in their input order.
C3_TopPostsRanking ==
    Returned("top_posts") =>
        LET top == out["top_posts"]
            kept == SchoolLunchReviews(LoadedReviews)
        IN /\ Len(top) <= limit
           /\ Len(top) = Min(limit, Len(kept))
           /\ \A p \in DOMAIN top :
                 top[p].engagement_score
                     = top[p].likes + top[p].comments + top[p].shares
           /\ \E from \in [DOMAIN top -> DOMAIN kept] :
                 /\ \A p \in DOMAIN top :
                       /\ top[p].post_id = GetOpt(kept[from[p]], "post_id")
                       /\ top[p].engagement_score = Engagement(kept[from[p]])
                 /\ \A p, q \in DOMAIN top :
                       p < q =>
                          \/ top[p].engagement_score > top[q].engagement_score
                          \/ /\ top[p].engagement_score = top[q].engagement_score
                             /\ from[p] < from[q]
                 /\ \A j \in DOMAIN kept :
                       (\A p \in DOMAIN top : from[p] # j) =>
                          \A p \in DOMAIN top :
                             \/ top[p].engagement_score > Engagement(kept[j])
                             \/ /\ top[p].engagement_score = Engagement(kept[j])
                                /\ from[p] < j

\* C3's case: two different posts of equal engagement and a limit that keeps
\* only one of them, the first of the input.
C3_Witness ==
    /\ Returned("top_posts")
    /\ limit = 1
    /\ Len(LoadedReviews) = 2
    /\ IsSchoolLunch(LoadedReviews[1]) /\ IsSchoolLunch(LoadedReviews[2])
    /\ LoadedReviews[1]["post_id"] # LoadedReviews[2]["post_id"]
    /\ Engagement(LoadedReviews[1]) = Engagement(LoadedReviews[2])
    /\ StatOf(LoadedReviews[1], "playCount") < StatOf(LoadedReviews[2], "playCount")
    /\ Len(out["top_posts"]) = 1
    /\ out["top_posts"][1].post_id = Some(LoadedReviews[1]["post_id"])

\* The foods of a review collection, as (review, food) index pairs.
FoodPlaces(rs) ==
    UNION {{<<i, j>> : j \in DOMAIN FoodsOf(rs[i])} : i \in DOMAIN rs}

FoodAt(rs, place) == FoodsOf(rs[place[1]])[place[2]]

\* The places of the foods of category c that carry a score.
ScoredIn(rs, c) ==
    {place \in FoodPlaces(rs) :
        /\ Get(FoodAt(rs, place), "category", "other") = c
        /\ "score" \in DOMAIN FoodAt(rs, place)
        /\ FoodAt(rs, place)["score"] # None}

\* C4: for every category of Category Statistics, min <= average <= max and
\* count is the number of the category's foods (no category meaning "other")
\* that carry a score; a category is listed once, and exactly when it has a
\* scored food.
C4_CategoryStatsBounds ==
    Returned("category_stats") =>
        LET stats == out["category_stats"]
        IN /\ \A i \in DOMAIN stats :
                 /\ 100 * stats[i].min <= stats[i].average_rating
                 /\ stats[i].average_rating <= 100 * stats[i].max
                 /\ stats[i].count
                      = Cardinality(ScoredIn(LoadedReviews, stats[i].category))
                 /\ stats[i].count > 0
           /\ \A i, j \in DOMAIN stats :
                 stats[i].category = stats[j].category => i = j
           /\ \A place \in FoodPlaces(LoadedReviews) :
                 LET c == Get(FoodAt(LoadedReviews, place), "category", "other")
                 IN ScoredIn(LoadedReviews, c) # {}
                       => \E i \in DOMAIN stats : stats[i].category = c

\* C4's case: a category with two scores, its average strictly between them,
\* and a category whose only food has no score and that is not listed.
C4_Witness ==
    /\ Returned("category_stats")
    /\ \E i \in DOMAIN out["category_stats"] :
          /\ out["category_stats"][i].count = 2
          /\ 100 * out["category_stats"][i].min < out["category_stats"][i].average_rating
          /\ out["category_stats"][i].average_rating < 100 * out["category_stats"][i].max
    /\ \E place \in FoodPlaces(LoadedReviews) :
          /\ "score" \notin DOMAIN FoodAt(LoadedReviews, place)
          /\ "category" \notin DOMAIN FoodAt(LoadedReviews, place)
          /\ \A i \in DOMAIN out["category_stats"] :
                out["category_stats"][i].category # "other"

\* C5, as stated: the Latest-Item Projector's average_rating is the mean over
\* only the scored foods of the latest review, and 0 when none is scored.
C5_LatestAverageIgnoresUnscored ==
    (Returned("latest_review") /\ out["latest_review"] # <<>>) =>
        LET scores == ScoresOf(out["latest_review"].foods)
        IN out["latest_review"].average_rating
             = IF scores = <<>> THEN 0
               ELSE 10 * RoundDiv(10 * SumSeq(scores), Len(scores))

\* The reviews whose description carries the off-topic marker.
OffTopic(rs) == {i \in DOMAIN rs : IsTexasRoadhouse(rs[i])}

PostIds(entries) == {entries[p].post_id : p \in DOMAIN entries}

\* C6: a review whose description carries the off-topic marker is left out of
\* school_lunch_reviews, of the Top-Posts Ranking and of the Posts Table, and
\* is still counted in total_reviews, has its point in the Cumulative Time
\* Series (when it has a timestamp to be placed at) and has its scored foods
\* counted in Category Statistics.
C6_OffTopicExcludedFromSchoolLunchRollupsOnly ==
    LET rs == LoadedReviews
        off == OffTopic(rs)
        on == DOMAIN rs \ off
    IN /\ Returned("overall_metrics") =>
            /\ out["overall_metrics"].total_reviews = Len(rs)
            /\ out["overall_metrics"].school_lunch_reviews = Cardinality(on)
       /\ Returned("top_posts") =>
            /\ Len(out["top_posts"]) = Min(TopPostsLimit, Cardinality(on))
            /\ \A i \in off :
                  GetOpt(rs[i], "post_id") \notin PostIds(out["top_posts"])
       /\ Returned("posts_table") =>
            /\ Len(out["posts_table"]) = Cardinality(on)
            /\ \A i \in off :
                  GetOpt(rs[i], "post_id") \notin PostIds(out["posts_table"])
       /\ Returned("time_series") =>
            \A i \in off \cap Timestamped(rs) :
               Cardinality({k \in DOMAIN out["time_series"] :
                              out["time_series"][k].timestamp = rs[i]["create_time"]})
                 = Cardinality({j \in Timestamped(rs) :
                                  rs[j]["create_time"] = rs[i]["create_time"]})
       /\ Returned("category_stats") =>
            \A place \in FoodPlaces(rs) :
               LET c == Get(FoodAt(rs, place), "category", "other")
               IN (place[1] \in off /\ place \in ScoredIn(rs, c)) =>
                     \E k \in DOMAIN out["category_stats"] :
                        /\ out["category_stats"][k].category = c
                        /\ out["category_stats"][k].count
                             = Cardinality(ScoredIn(rs, c))

\* C6's case: a finished run over an off-topic review, with a timestamp and a
\* scored food, and a school-lunch review.
C6_Witness ==
    /\ pc = "exited"
    /\ exit_code = Some(0)
    /\ Len(LoadedReviews) = 2
    /\ Cardinality(OffTopic(LoadedReviews)) = 1
    /\ \E i \in OffTopic(LoadedReviews) :
          /\ HasCreateTime(LoadedReviews[i])
          /\ ScoresOf(FoodsOf(LoadedReviews[i])) # <<>>
    /\ out["overall_metrics"].total_reviews = 2
    /\ out["overall_metrics"].school_lunch_reviews = 1
    /\ Len(out["top_posts"]) = 1
    /\ Len(out["posts_table"]) = 1
    /\ Len(out["time_series"]) = 2

\* The output file is as the run found it.
OutputUntouched == outputFile \in {None, Some(PreviousDocument)}

\* C7: when main() returns 1 for a missing input file or a calculator that
\* raised, the output file is as the run found it, and for a missing input no
\* calculator was invoked; the file is touched only once all eight
\* calculators have returned.
C7_NoOutputOnFailure ==
    /\ exit_code = Some(1) =>
          /\ error \in {"InputMissing", "TransformFailure"}
          /\ OutputUntouched
          /\ error = "InputMissing" => called = {} /\ out = <<>>
    /\ ~OutputUntouched =>
          /\ error = ""
          /\ \A i \in DOMAIN Calculators : Returned(Calculators[i])

\* C7's case: a run that ended with 1 because the last calculator raised, the
\* previous document still in place.
C7_Witness ==
    /\ pc = "exited"
    /\ exit_code = Some(1)
    /\ error = "TransformFailure"
    /\ "latest_review" \in called
    /\ outputFile = Some(PreviousDocument)

\* C8, as stated: whatever order the calculators are invoked in on the shared
\* working set, each returns what it returns in the Assembler's order, that
\* is, what it returns on the review collection as loaded.
C8_CalculatorsOrderInsensitive ==
    \A fn \in DOMAIN out :
        out[fn] = Result(fn, LoadedReviews, posts_data, limit)

\* C9: the pipeline run on an empty review collection raises nothing and
\* writes a document of zeroed and empty sections.
C9_EmptyCollection ==
    (reviewsFile # None /\ postsFile # None /\ LoadedReviews = <<>>) =>
        /\ error = ""
        /\ exit_code # Some(1)
        /\ pc = "exited" =>
              /\ exit_code = Some(0)
              /\ outputFile # None
              /\ outputFile[1] = DashboardData
              /\ DOMAIN outputFile[1]
                   = Range(Calculators) \cup {"username", "generated_at_formatted"}
              /\ outputFile[1]["overall_metrics"].total_reviews = 0
              /\ outputFile[1]["overall_metrics"].school_lunch_reviews = 0
              /\ outputFile[1]["overall_metrics"].total_food_items = 0
              /\ outputFile[1]["overall_metrics"].overall_average_rating = 0
              /\ outputFile[1]["overall_metrics"].favorite_category = None
              /\ DOMAIN outputFile[1]["overall_metrics"].category_counts = {}
              /\ outputFile[1]["category_stats"] = <<>>
              /\ outputFile[1]["time_series"] = <<>>
              /\ outputFile[1]["top_posts"] = <<>>
              /\ outputFile[1]["key_phrases"] = <<>>
              /\ outputFile[1]["posts_table"] = <<>>
              /\ outputFile[1]["food_frequency"] = <<>>
              /\ DOMAIN outputFile[1]["latest_review"] = {}

\* C9's case: the run over an empty collection has ended and left its
\* document.
C9_Witness ==
    /\ pc = "exited"
    /\ reviewsFile # None
    /\ LoadedReviews = <<>>
    /\ exit_code = Some(0)
    /\ outputFile # None
    /\ "overall_metrics" \in DOMAIN outputFile[1]
    /\ outputFile[1]["overall_metrics"].total_reviews = 0

\* C10: format_number gives the decimal digits below 1000, the nearest whole
\* number of thousands and "K" from 1000 on, and the nearest tenth of a
\* million, one decimal, and "M" from 1,000,000 on; 950 gives "950", 1500
\* gives "2K" and 2,300,000 gives "2.3M".
C10_FormatNumber ==
    pc = "formatted" =>
        /\ num < 1000 => formatted = Digits(num)
        /\ (num >= 1000 /\ num < 1000000) =>
              \E k \in {num \div 1000, (num \div 1000) + 1} :
                 /\ 1000 * k - num <= 500
                 /\ num - 1000 * k <= 500
                 /\ formatted = Digits(k) \o <<"K">>
        /\ num >= 1000000 =>
              \E t \in {num \div 100000, (num \div 100000) + 1} :
                 /\ 100000 * t - num <= 50000
                 /\ num - 100000 * t <= 50000
                 /\ formatted = Digits(t \div 10) \o <<".">> \o Digits(t % 10) \o <<"M">>
        /\ num = 950 => formatted = <<"9", "5", "0">>
        /\ num = 1500 => formatted = <<"2", "K">>
        /\ num = 2300000 => formatted = <<"2", ".", "3", "M">>

\* C10's case: 1500, a value halfway between two thousands, was formatted.
C10_Witness ==
    /\ pc = "formatted"
    /\ num = 1500
    /\ formatted = <<"2", "K">>

\* The entries of FILES_TO_UPLOAD that exist locally, by path.
LocalPaths == {FILES_TO_UPLOAD[i] : i \in local_files}

\* C11, as stated: a failed upload never stops the batch: once uploads have
\* begun the run ends with 0, every entry that exists locally has been
\* attempted, and no failed entry is among the reported uploads; the run ends
\* with 1 only for a missing data directory or missing credentials, and then
\* nothing was attempted.
C11_UploadFailureNeverStopsBatch ==
    /\ failed \cap DOMAIN uploaded_urls = {}
    /\ upload_pc = "exited" =>
          /\ upload_exit = Some(1) =>
                /\ ~data_exists \/ get_s3_client_raises(environ)
                /\ attempted = <<>>
          /\ (data_exists /\ ~get_s3_client_raises(environ)) =>
                /\ upload_exit = Some(0)
                /\ Range(attempted) = LocalPaths
                /\ DOMAIN uploaded_urls = LocalPaths \ failed

\* The loaded reviews get_latest_review returned, by post_id.
ReturnedAsLatest(rs) ==
    {i \in DOMAIN rs : GetOpt(rs[i], "post_id") = out["latest_review"].post_id}

\* C12, as stated: the Latest-Item Projector works on the reviews that pass
\* the description filter of the Posts Table: the review it returns does not
\* carry the off-topic marker in its description, and it returns a review
\* whenever one passes the description filter.
C12_LatestFromDescriptionFilteredSet ==
    Returned("latest_review") =>
        LET rs == LoadedReviews
        IN /\ out["latest_review"] # <<>> =>
                 ReturnedAsLatest(rs) \cap OffTopic(rs) = {}
           /\ out["latest_review"] = <<>> <=> SchoolLunchReviews(rs) = <<>>

\* The reviews get_latest_review chooses among.
LatestCandidates(rs) == {i \in DOMAIN rs : IsLatestCandidate(rs[i])}

\* C13, as stated: get_latest_review returns the review with the maximum
\* create_time of the filtered set, and a review with no create_time is
\* returned only when it is the only review of the filtered set.
C13_LatestHasMaximumCreateTime ==
    (Returned("latest_review") /\ out["latest_review"] # <<>>) =>
        LET rs == LoadedReviews
            candidates == LatestCandidates(rs)
        IN \A r \in ReturnedAsLatest(rs) \cap candidates :
              /\ r \in Timestamped(rs) =>
                    \A j \in candidates \cap Timestamped(rs) :
                       rs[j]["create_time"] <= rs[r]["create_time"]
              /\ r \notin Timestamped(rs) => candidates = {r}

\* C14, as stated: the review_number get_latest_review reports is the
\* review_number prepare_posts_table assigns to the post with the same
\* post_id.
C14_LatestReviewNumberIsThePostsTableNumber ==
    (Returned("latest_review") /\ Returned("posts_table")
        /\ out["latest_review"] # <<>>) =>
        LET same == {p \in DOMAIN out["posts_table"] :
                       out["posts_table"][p].post_id
                         = out["latest_review"].post_id}
        IN same # {} =>
              \E p \in same :
                 out["posts_table"][p].review_number
                   = out["latest_review"].review_number

\* The likes one point of the series adds to the running sum.
LikesAddedAt(series, k) ==
    series[k].cumulative_likes
        - (IF k = 1 THEN 0 ELSE series[k - 1].cumulative_likes)

\* C15, as stated: the Cumulative Time Series has exactly one point per
\* review that has a create_time and none for the others, in ascending
\* create_time order, reviews of equal create_time in input order.
C15_OnePointPerTimestampedReview ==
    Returned("time_series") =>
        LET rs == LoadedReviews
            dated == FilterSeq(rs, Timestamped(rs))
            expected ==
                Sorted(dated, [i \in DOMAIN dated |-> dated[i]["create_time"]])
            series == out["time_series"]
        IN /\ Len(series) = Len(expected)
           /\ \A k \in DOMAIN series :
                 /\ series[k].timestamp = expected[k]["create_time"]
                 /\ series[k].day_number = GetOpt(expected[k], "day_number")
                 /\ LikesAddedAt(series, k) = StatOf(expected[k], "diggCount")

\* First character upper case, all remaining characters lower case.
InSentenceCase(text) ==
    \A c \in DOMAIN text :
        text[c] = IF c = 1 THEN UpperChar(text[c]) ELSE LowerChar(text[c])

\* C16, as stated: every food name listed in a Posts Table entry is in
\* sentence case, the rendering sentence_case gives: first character upper
\* case and all remaining characters lower case.
C16_PostsTableNamesInSentenceCase ==
    Returned("posts_table") =>
        \A p \in DOMAIN out["posts_table"] :
            \A f \in DOMAIN out["posts_table"][p].foods :
                LET name == out["posts_table"][p].foods[f].name
                IN InSentenceCase(name) /\ name = sentence_case(name)

\* C17, as stated: no two entries of the list extract_key_phrases returns
\* are equal.
C17_KeyPhrasesUnique ==
    Returned("key_phrases") =>
        \A i, j \in DOMAIN out["key_phrases"] :
            i # j => out["key_phrases"][i] # out["key_phrases"][j]

====
